---- MODULE Spec2Model ----
(***************************************************************************)
(* Model of src/repository/commit.rs: the Commit snapshot of a repository's *)
(* HEAD (from_repo_head), its accessor raw_signed_bytes, the hard reset     *)
(* (reset) and the freshness check (ensure_fresh).                          *)
(*                                                                          *)
(* The git2 engine is a collaborator: what it answers to a call (object     *)
(* found or not, summary present or not, what extract_signature returns,    *)
(* whether the hard reset goes through) is an input of the action, drawn    *)
(* from a small set.  Every call an operation makes is logged, with the     *)
(* engine's answer, in the operation's `calls`; the repository changes only *)
(* through the engine calls that change it.                                 *)
(***************************************************************************)
EXTENDS Integers, Sequences, FiniteSets, TLC

\* ------------------------------------------------------------------ bounds
\* Hex digits of an object id (40 in git; scaled down).
HexSz == 2
\* Longest signature / signed-data byte string the engine returns.
MaxBytes == 1
\* Largest staleness threshold DAYS_UNTIL_STALE considered, in days.
MaxDays == 1

\* ------------------------------------------------------------- Option, Result
None == <<>>
Some(x) == <<x>>
IsSome(o) == o # <<>>

Ok(v) == [tag |-> "Ok", val |-> v]
Err(e) == [tag |-> "Err", err |-> e]
\* A panic (unwrap on Err/None) unwinds out of the operation: nothing is returned.
Panic == [tag |-> "Panic"]

\* git2::Error propagated by `?` (From<git2::Error> for Error).
GitError(code) == [kind |-> "Git", msg |-> code, id |-> None]

\* ------------------------------------------------------------------ git2::Oid
\* Nibble values an object id is made of (0 and 0xa stand for the sixteen).
Nibbles == {0, 10}
Oids == [1..HexSz -> Nibbles]

\* Characters a caller may put in the public commit_id field: a lower-case hex
\* digit, an upper-case hex digit, and a character that is no hex digit.
IdChars == {"a", "A", "g"}
\* Every string of up to HexSz such characters, and one that is too long.
IdStrings ==
    UNION {[1..n -> IdChars] : n \in 0..HexSz} \cup {[i \in 1..(HexSz + 1) |-> "a"]}

\* Value of a hex digit, -1 for any other character (libgit2's from-hex table
\* accepts both cases).
HexVal(c) ==
    CASE c = "0" -> 0
      [] c = "a" -> 10
      [] c = "A" -> 10
      [] OTHER -> -1

\* Oid's Display: lower-case hex, always HexSz digits.
HexChar(n) == IF n = 10 THEN "a" ELSE "0"

OidToString(oid) == [i \in 1..HexSz |-> HexChar(oid[i])]

\* git2::Oid::from_str: an error if the string is empty, longer than HexSz or
\* holds a non-hex character; a shorter string is padded with zero nibbles.
OidFromStr(s) ==
    IF Len(s) = 0 \/ Len(s) > HexSz \/ \E i \in 1..Len(s) : HexVal(s[i]) < 0
    THEN Err(GitError("invalid oid"))
    ELSE Ok([i \in 1..HexSz |-> IF i <= Len(s) THEN HexVal(s[i]) ELSE 0])

\* How a commit_id string fails or passes Oid::from_str.
IdForm(s) ==
    IF Len(s) = 0 THEN "empty"
    ELSE IF Len(s) > HexSz THEN "too_long"
    ELSE IF \E i \in 1..Len(s) : HexVal(s[i]) < 0 THEN "non_hex"
    ELSE "hex"

\* --------------------------------------------------------------- byte strings
Byte == {7}
ByteSeqs == UNION {[1..n -> Byte] : n \in 0..MaxBytes}

\* Vec::from(&*data): an owned copy of the buffer, byte for byte.
VecFrom(buf) == [i \in 1..Len(buf) |-> buf[i]]

\* Signature::new (super::signature): rejects zero-length input, otherwise
\* keeps the bytes as they are.
SignatureNew(raw) ==
    IF Len(raw) = 0
    THEN Err([kind |-> "Signature", msg |-> "empty signature", id |-> None])
    ELSE Ok([raw_bytes |-> VecFrom(raw)])

\* ------------------------------------------------------------- engine answers
Authors == {"author"}
Summaries == {"summary"}
SecondsPerDay == 86400
\* commit.time().seconds()
Times == {0, SecondsPerDay}

\* What repo.extract_signature(&oid, None) returns: Ok((sig, data)), or an
\* error: no signature on the commit (NotFound) or any other failure.
\* (err names the failure; sig and data are the two buffers of an Ok.)
ExtractAnswers ==
    {[ok |-> FALSE, err |-> e, sig |-> <<>>, data |-> <<>>] : e \in {"NotFound", "Odb"}}
    \cup {[ok |-> TRUE, err |-> "", sig |-> s, data |-> d] : s \in ByteSeqs, d \in ByteSeqs}

\* One logged call: the function, whether it succeeded, what it carried.
Call(fn, ok, val) == [fn |-> fn, ok |-> ok, val |-> val]


\* ------------------------------------------------------------ repository state
\* HEAD: unborn (repo.head() fails), symbolic without a target, or an object id.
Heads ==
    {[born |-> FALSE, target |-> None], [born |-> TRUE, target |-> None]}
    \cup {[born |-> TRUE, target |-> Some(o)] : o \in Oids}

\* index / workdir: whether they match the HEAD commit's tree.
Repos == [head : Heads, index : {"clean", "modified"}, workdir : {"clean", "modified"}]

VARIABLES
    repo,       \* the git2 repository: HEAD, index, working tree
    commit,     \* the Commit the caller holds (None before the first one)
    extracted,  \* what extract_signature answered when `commit` was built
    last,       \* the operation that ran last: its name, input, result, calls
    resetId,    \* commit_id of the last reset that returned Ok
    panicked    \* the thread has panicked

vars == <<repo, commit, extracted, last, resetId, panicked>>

\* ------------------------------------------------------------------ the engine
\* Mutant of hard_reset: index and working tree are overwritten, HEAD stays.
hard_reset_keep_head(r, oid) ==
    [head |-> r.head, index |-> "clean", workdir |-> "clean"]

\* git2 Repository::reset(&object, ResetType::Hard, None): HEAD moves to the
\* target, index and working tree are overwritten to match it.
hard_reset(r, oid) ==
    [head |-> [born |-> TRUE, target |-> Some(oid)], index |-> "clean", workdir |-> "clean"]

\* The effect of one engine call on the repository: only a reset that went
\* through changes it; head(), find_object(), author(), summary(), time() and
\* extract_signature() read.
EngineCall(r, c) ==
    IF c.fn = "reset" /\ c.ok THEN hard_reset(r, c.val[1]) ELSE r

RECURSIVE EngineEffects(_, _)
EngineEffects(r, calls) ==
    IF calls = <<>> THEN r
    ELSE EngineEffects(EngineCall(r, Head(calls)), Tail(calls))

\* --------------------------------------------------------------- the operations
\* Mutant of extract_match: a signature the parser rejects leaves the signed
\* data in place without a signature.
extract_match_half(answer) ==
    IF answer.ok
    THEN LET parsed == SignatureNew(answer.sig)
         IN Ok([signature |-> IF parsed.tag = "Err" THEN None ELSE Some(parsed.val),
                signed_data |-> Some(VecFrom(answer.data))])
    ELSE Ok([signature |-> None, signed_data |-> None])

\* Mutant of extract_match: every extraction error is returned with `?`.
extract_match_propagate(answer) ==
    IF answer.ok
    THEN LET parsed == SignatureNew(answer.sig)
         IN IF parsed.tag = "Err" THEN Err(parsed.err)
            ELSE Ok([signature |-> Some(parsed.val),
                     signed_data |-> Some(VecFrom(answer.data))])
    ELSE Err(GitError(answer.err))

\* Mutant of extract_match: only NotFound counts as "no signature".
extract_match_absent_only(answer) ==
    IF answer.ok
    THEN LET parsed == SignatureNew(answer.sig)
         IN IF parsed.tag = "Err" THEN Err(parsed.err)
            ELSE Ok([signature |-> Some(parsed.val),
                     signed_data |-> Some(VecFrom(answer.data))])
    ELSE IF answer.err = "NotFound"
    THEN Ok([signature |-> None, signed_data |-> None])
    ELSE Err(GitError(answer.err))

\* Mutant of extract_match: a signature the parser rejects counts as none
\* (Signature::new(..).ok() in place of `?`).
extract_match_swallow(answer) ==
    IF answer.ok
    THEN LET parsed == SignatureNew(answer.sig)
         IN IF parsed.tag = "Err" THEN Ok([signature |-> None, signed_data |-> None])
            ELSE Ok([signature |-> Some(parsed.val),
                     signed_data |-> Some(VecFrom(answer.data))])
    ELSE Ok([signature |-> None, signed_data |-> None])

\* Lines 57-60: the match on extract_signature's result.  Ok((sig, data)) gives
\* (Some(Signature::new(sig)?), Some(Vec::from(data))), the `?` returning the
\* parser's error; anything else gives (None, None).
extract_match(answer) ==
    IF answer.ok
    THEN LET parsed == SignatureNew(answer.sig)
         IN IF parsed.tag = "Err" THEN Err(parsed.err)
            ELSE Ok([signature |-> Some(parsed.val),
                     signed_data |-> Some(VecFrom(answer.data))])
    ELSE Ok([signature |-> None, signed_data |-> None])

\* DateTime::from_utc(NaiveDateTime::from_timestamp(seconds, 0), Utc): the same
\* instant, in seconds since the epoch (commit times within chrono's range).
DateTimeFromUtc(seconds) == seconds

\* Mutant of from_repo_head: the signature is extracted before the summary is
\* looked at.
from_repo_head_sig_first(r, eng) ==
    IF ~r.head.born
    THEN [ret |-> Err(GitError("UnbornBranch")), calls |-> <<Call("head", FALSE, None)>>]
    ELSE IF r.head.target = None
    THEN [ret |-> Err([kind |-> "Repo", msg |-> "no ref target", id |-> None]),
          calls |-> <<Call("head", TRUE, None)>>]
    ELSE
    LET oid == r.head.target[1]
        commit_id == OidToString(oid)
        c1 == <<Call("head", TRUE, Some(oid))>>
    IN
    IF ~eng.find_ok
    THEN [ret |-> Err(GitError("NotFound")),
          calls |-> c1 \o <<Call("find_object", FALSE, Some(oid))>>]
    ELSE
    LET c2 == c1 \o <<Call("find_object", TRUE, Some(oid)),
                      Call("author", TRUE, Some(eng.author)),
                      Call("extract_signature", eng.extract.ok, Some(eng.extract))>>
        m == extract_match(eng.extract)
    IN
    IF m.tag = "Err"
    THEN [ret |-> Err(m.err), calls |-> c2]
    ELSE IF eng.summary = None
    THEN [ret |-> Err([kind |-> "Repo", msg |-> "no commit summary", id |-> Some(commit_id)]),
          calls |-> c2 \o <<Call("summary", FALSE, None)>>]
    ELSE [ret |-> Ok([commit_id |-> commit_id,
                      author |-> eng.author,
                      summary |-> eng.summary[1],
                      time |-> DateTimeFromUtc(eng.seconds),
                      signature |-> m.val.signature,
                      signed_data |-> m.val.signed_data]),
          calls |-> c2 \o <<Call("summary", TRUE, eng.summary),
                            Call("time", TRUE, Some(eng.seconds))>>]

\* Commit::from_repo_head.  eng: the engine's answers (find_ok, author, summary,
\* extract, seconds).
from_repo_head(r, eng) ==
    IF ~r.head.born
    THEN [ret |-> Err(GitError("UnbornBranch")), calls |-> <<Call("head", FALSE, None)>>]
    ELSE IF r.head.target = None
    THEN [ret |-> Err([kind |-> "Repo", msg |-> "no ref target", id |-> None]),
          calls |-> <<Call("head", TRUE, None)>>]
    ELSE
    LET oid == r.head.target[1]
        commit_id == OidToString(oid)
        c1 == <<Call("head", TRUE, Some(oid))>>
    IN
    IF ~eng.find_ok
    THEN [ret |-> Err(GitError("NotFound")),
          calls |-> c1 \o <<Call("find_object", FALSE, Some(oid))>>]
    ELSE
    LET c2 == c1 \o <<Call("find_object", TRUE, Some(oid)),
                      Call("author", TRUE, Some(eng.author))>>
    IN
    IF eng.summary = None
    THEN [ret |-> Err([kind |-> "Repo", msg |-> "no commit summary", id |-> Some(commit_id)]),
          calls |-> c2 \o <<Call("summary", FALSE, None)>>]
    ELSE
    LET c3 == c2 \o <<Call("summary", TRUE, eng.summary),
                      Call("extract_signature", eng.extract.ok, Some(eng.extract))>>
        m == extract_match(eng.extract)
    IN
    IF m.tag = "Err"
    THEN [ret |-> Err(m.err), calls |-> c3]
    ELSE [ret |-> Ok([commit_id |-> commit_id,
                      author |-> eng.author,
                      summary |-> eng.summary[1],
                      time |-> DateTimeFromUtc(eng.seconds),
                      signature |-> m.val.signature,
                      signed_data |-> m.val.signed_data]),
          calls |-> c3 \o <<Call("time", TRUE, Some(eng.seconds))>>]

\* Mutant of raw_signed_bytes: the signature's bytes are handed out in place
\* of the signed data.
raw_signed_bytes_sig(self) ==
    IF self.signature = None THEN None ELSE Some(self.signature[1].raw_bytes)

\* Commit::raw_signed_bytes: signed_data.as_ref().map(|bytes| bytes.as_ref()).
raw_signed_bytes(self) ==
    IF self.signed_data = None THEN None ELSE Some(self.signed_data[1])

\* Commit::reset.  Oid::from_str(&self.commit_id).unwrap() panics when the
\* string is no object id; find_object and reset return their error with `?`.
reset(self, eng) ==
    LET parsed == OidFromStr(self.commit_id)
    IN
    IF parsed.tag = "Err"
    THEN [ret |-> Panic, calls |-> <<>>]
    ELSE
    LET oid == parsed.val
    IN
    IF ~eng.find_ok
    THEN [ret |-> Err(GitError("NotFound")),
          calls |-> <<Call("find_object", FALSE, Some(oid))>>]
    ELSE IF ~eng.reset_ok
    THEN [ret |-> Err(GitError("reset")),
          calls |-> <<Call("find_object", TRUE, Some(oid)), Call("reset", FALSE, Some(oid))>>]
    ELSE [ret |-> Ok(None),
          calls |-> <<Call("find_object", TRUE, Some(oid)), Call("reset", TRUE, Some(oid))>>]

\* Duration::days(n) in seconds.
DurationDays(n) == n * SecondsPerDay

\* Mutant of ensure_fresh: a commit exactly `days` old counts as fresh.
ensure_fresh_ge(self, now, days) ==
    LET fresh_after_date == now - DurationDays(days)
    IN
    IF self.time >= fresh_after_date
    THEN [ret |-> Ok(None), calls |-> <<>>]
    ELSE [ret |-> Err([kind |-> "Repo", msg |-> "stale repo", days |-> days, time |-> self.time]),
          calls |-> <<>>]

\* Mutant of ensure_fresh: a stale repository is hard-reset to the commit on
\* the way out.
ensure_fresh_autoreset(self, now, days) ==
    LET fresh_after_date == now - DurationDays(days)
        oid == OidFromStr(self.commit_id).val
    IN
    IF self.time > fresh_after_date
    THEN [ret |-> Ok(None), calls |-> <<>>]
    ELSE [ret |-> Err([kind |-> "Repo", msg |-> "stale repo", days |-> days, time |-> self.time]),
          calls |-> <<Call("find_object", TRUE, Some(oid)), Call("reset", TRUE, Some(oid))>>]

\* Commit::ensure_fresh.  now: Utc::now(); days: DAYS_UNTIL_STALE.
ensure_fresh(self, now, days) ==
    LET fresh_after_date == now - DurationDays(days)
    IN
    IF self.time > fresh_after_date
    THEN [ret |-> Ok(None), calls |-> <<>>]
    ELSE [ret |-> Err([kind |-> "Repo", msg |-> "stale repo", days |-> days, time |-> self.time]),
          calls |-> <<>>]

\* ------------------------------------------------------------------ the inputs
\* Values of DAYS_UNTIL_STALE (super::DAYS_UNTIL_STALE, a usize).
DaysUntilStale == 0..MaxDays

\* Readings of Utc::now(): around every commit time plus every threshold.
Nows == {t + DurationDays(n) + d : t \in Times, n \in 0..MaxDays, d \in {-1, 0, 1}}

\* The engine's answers to the calls of one from_repo_head, by how far the
\* call sequence gets: find_object fails; or the commit has no summary; or it
\* has one, and extract_signature and time() answer.  (An answer that is not
\* asked for is left at a default.)
HeadAnswers ==
    {[find_ok |-> FALSE, author |-> a, summary |-> None, seconds |-> 0,
      extract |-> [ok |-> FALSE, err |-> "NotFound", sig |-> <<>>, data |-> <<>>]] :
        a \in Authors}
    \cup {[find_ok |-> TRUE, author |-> a, summary |-> None, seconds |-> 0,
           extract |-> [ok |-> FALSE, err |-> "NotFound", sig |-> <<>>, data |-> <<>>]] :
        a \in Authors}
    \cup {[find_ok |-> TRUE, author |-> a, summary |-> Some(s), seconds |-> t, extract |-> e] :
        a \in Authors, s \in Summaries, t \in Times, e \in ExtractAnswers}

\* The engine's answers to the calls of one reset: find_object fails; or it
\* finds the object and the reset fails; or both succeed.
ResetAnswers ==
    {[find_ok |-> FALSE, reset_ok |-> FALSE],
     [find_ok |-> TRUE, reset_ok |-> FALSE],
     [find_ok |-> TRUE, reset_ok |-> TRUE]}

\* The answers a reset on commit_id `id` can get: the engine is asked nothing
\* when `id` does not decode.
ResetAnswersFor(id) ==
    IF OidFromStr(id).tag = "Err"
    THEN {[find_ok |-> FALSE, reset_ok |-> FALSE]}
    ELSE ResetAnswers

\* ------------------------------------------------------------------ the actions
Init ==
    /\ repo \in Repos
    /\ commit = None
    /\ extracted = None
    /\ last = [op |-> "init", arg |-> None, ret |-> Ok(None), calls |-> <<>>]
    /\ resetId = None
    /\ panicked = FALSE

\* A caller runs Commit::from_repo_head(repo) and keeps the Commit it returns.
FromRepoHead ==
    /\ ~panicked
    /\ \E eng \in HeadAnswers : \E r \in {from_repo_head(repo, eng)} :
           /\ repo' = EngineEffects(repo, r.calls)
           /\ last' = [op |-> "from_repo_head", arg |-> None, ret |-> r.ret, calls |-> r.calls]
           /\ commit' = IF r.ret.tag = "Ok" THEN Some(r.ret.val) ELSE commit
           /\ extracted' = IF r.ret.tag = "Ok" THEN Some(eng.extract) ELSE extracted
           /\ UNCHANGED <<resetId, panicked>>

\* A caller reads commit.raw_signed_bytes().
RawSignedBytes ==
    /\ ~panicked
    /\ commit # None
    /\ last' = [op |-> "raw_signed_bytes", arg |-> None,
                ret |-> Ok(raw_signed_bytes(commit[1])), calls |-> <<>>]
    /\ UNCHANGED <<repo, commit, extracted, resetId, panicked>>

\* A caller runs reset(repo) on a Commit: the one it holds, or that one with
\* its public commit_id field set to another string.
Reset ==
    /\ ~panicked
    /\ commit # None
    /\ \E id \in IdStrings \cup {commit[1].commit_id} :
       \E eng \in ResetAnswersFor(id) :
       \E r \in {reset([commit[1] EXCEPT !.commit_id = id], eng)} :
           /\ repo' = EngineEffects(repo, r.calls)
           /\ last' = [op |-> "reset", arg |-> Some(IdForm(id)), ret |-> r.ret, calls |-> r.calls]
           /\ resetId' = IF r.ret.tag = "Ok" THEN Some(id) ELSE resetId
           /\ panicked' = (r.ret.tag = "Panic")
           /\ UNCHANGED <<commit, extracted>>

\* A caller runs commit.ensure_fresh().
EnsureFresh ==
    /\ ~panicked
    /\ commit # None
    /\ \E now \in Nows, days \in DaysUntilStale :
       \E r \in {ensure_fresh(commit[1], now, days)} :
           /\ repo' = EngineEffects(repo, r.calls)
           /\ last' = [op |-> "ensure_fresh", arg |-> Some([now |-> now, days |-> days]),
                       ret |-> r.ret, calls |-> r.calls]
           /\ UNCHANGED <<commit, extracted, resetId, panicked>>

Next ==
    \/ FromRepoHead
    \/ RawSignedBytes
    \/ Reset
    \/ EnsureFresh

Spec == Init /\ [][Next]_vars

\* ---------------------------------------------------------------- the claims
\* The functions called, in order.
Fns(calls) == [i \in 1..Len(calls) |-> calls[i].fn]

IsPrefix(s, t) == Len(s) <= Len(t) /\ \A i \in 1..Len(s) : s[i] = t[i]

\* The extract_signature call of the last operation, if it made one.
ExtractCalls == {i \in 1..Len(last.calls) : last.calls[i].fn = "extract_signature"}

\* from_repo_head ran last and got as far as a summary (so: HEAD resolved,
\* the commit object loaded, a summary present).
HeadWithSummary ==
    /\ last.op = "from_repo_head"
    /\ \E i \in 1..Len(last.calls) : last.calls[i].fn = "summary" /\ last.calls[i].ok

\* The extraction of the last from_repo_head returned bytes the signature
\* parser rejects.
ExtractedMalformed ==
    \E i \in ExtractCalls :
        /\ last.calls[i].ok
        /\ SignatureNew(last.calls[i].val[1].sig).tag = "Err"

\* C1: every Commit from_repo_head returns (and so the one the caller holds)
\* has a signature if and only if it has signed data.
C1_SignatureIffSignedData ==
    /\ (last.op = "from_repo_head" /\ last.ret.tag = "Ok")
        => ((last.ret.val.signature # None) <=> (last.ret.val.signed_data # None))
    /\ commit # None
        => ((commit[1].signature # None) <=> (commit[1].signed_data # None))

C1_Witness ==
    /\ last.op = "from_repo_head"
    /\ last.ret.tag = "Ok"
    /\ last.ret.val.signature # None
    /\ last.ret.val.signed_data # None

C3_FreshStrictlyAfterThreshold ==
    last.op = "ensure_fresh" =>
        LET now == last.arg[1].now
            days == last.arg[1].days
            t == commit[1].time
            stale == /\ last.ret.tag = "Err"
                     /\ last.ret.err.msg = "stale repo"
                     /\ last.ret.err.days = days
                     /\ last.ret.err.time = t
        IN /\ t = now - days * 86400 - 1 => stale
           /\ t = now - days * 86400 => stale
           /\ t = now - days * 86400 + 1 => last.ret.tag = "Ok"
           /\ last.ret.tag = "Ok" <=> t + days * 86400 > now
           /\ last.ret.tag # "Ok" => stale

C3_Witness ==
    /\ last.op = "ensure_fresh"
    /\ last.arg[1].days > 0
    /\ commit[1].time = last.arg[1].now - last.arg[1].days * 86400
    /\ last.ret.tag = "Err"

\* C4: when extract_signature returned bytes and the signature parser rejects
\* them, from_repo_head returns the parser's error, never a Commit (so never
\* one with signature = None).
C4_MalformedSignatureIsAnError ==
    (last.op = "from_repo_head" /\ ExtractedMalformed) =>
        /\ last.ret.tag = "Err"
        /\ last.ret.err.kind = "Signature"

C4_Witness ==
    /\ last.op = "from_repo_head"
    /\ ExtractedMalformed
    /\ last.ret.tag = "Err"

C6_StepsInOrder ==
    last.op = "from_repo_head" =>
        /\ IsPrefix(Fns(last.calls),
                    <<"head", "find_object", "author", "summary", "extract_signature", "time">>)
        /\ \A i \in 1..(Len(last.calls) - 1) :
              last.calls[i].ok \/ last.calls[i].fn = "extract_signature"
        /\ (\E i \in 1..Len(last.calls) : last.calls[i].fn = "summary" /\ ~last.calls[i].ok) =>
              /\ last.ret.tag = "Err"
              /\ last.ret.err.kind = "Repo"
              /\ last.ret.err.msg = "no commit summary"
              /\ last.ret.err.id = Some(OidToString(repo.head.target[1]))
              /\ ExtractCalls = {}

C6_Witness ==
    /\ last.op = "from_repo_head"
    /\ Len(last.calls) = 4
    /\ last.calls[4].fn = "summary"
    /\ ~last.calls[4].ok
    /\ last.ret.tag = "Err"

\* A commit id as from_repo_head writes it: HexSz lower-case hex digits.
IsCanonicalId(s) == Len(s) = HexSz /\ \A i \in 1..Len(s) : s[i] \in {"0", "a"}

\* C7 as stated: after a reset on commit_id `id` returned Ok, the Commit a
\* later from_repo_head returns has commit_id = id.
C7_HeadIdEqualsResetId ==
    (last.op = "from_repo_head" /\ last.ret.tag = "Ok" /\ resetId # None) =>
        last.ret.val.commit_id = resetId[1]

\* C7 as amended: after a reset on commit_id `id` returned Ok, the Commit a
\* later from_repo_head returns has as commit_id the full-length lower-case
\* hex form of the object id that `id` decodes to; that is `id` itself when
\* `id` is in that form.
C7_HeadIdIsCanonicalResetId ==
    (last.op = "from_repo_head" /\ last.ret.tag = "Ok" /\ resetId # None) =>
        /\ OidFromStr(resetId[1]).tag = "Ok"
        /\ last.ret.val.commit_id = OidToString(OidFromStr(resetId[1]).val)
        /\ IsCanonicalId(resetId[1]) => last.ret.val.commit_id = resetId[1]

C7_Witness ==
    /\ last.op = "from_repo_head"
    /\ last.ret.tag = "Ok"
    /\ resetId # None
    /\ IsCanonicalId(resetId[1])
    /\ last.ret.val.commit_id = resetId[1]

\* C8: a reset on a commit_id that is no well-formed object id returns an
\* error; it does not panic.
C8_MalformedIdIsAnError ==
    (last.op = "reset" /\ last.arg[1] # "hex") =>
        /\ last.ret.tag = "Err"
        /\ ~panicked

\* C9: raw_signed_bytes gives None when extract_signature yielded nothing for
\* the Commit, and otherwise exactly the signed data extract_signature
\* returned when the Commit was built, whatever happened to the repository
\* since.
C9_RawSignedBytesAsExtracted ==
    last.op = "raw_signed_bytes" =>
        /\ ~extracted[1].ok => last.ret.val = None
        /\ extracted[1].ok =>
              /\ last.ret.val # None
              /\ Len(last.ret.val[1]) = Len(extracted[1].data)
              /\ last.ret.val[1] = extracted[1].data

C9_Witness ==
    /\ last.op = "raw_signed_bytes"
    /\ extracted[1].ok
    /\ Len(extracted[1].data) > 0
    /\ last.ret.val = Some(extracted[1].data)
    /\ resetId # None
    /\ repo.head.target # Some(OidFromStr(commit[1].commit_id).val)

\* C10: from_repo_head, raw_signed_bytes and ensure_fresh leave HEAD, index
\* and working tree as they are, whatever they return, and make no reset
\* call; the repository changes only in a reset that returns Ok.
C10_OnlyResetChangesRepo ==
    [][/\ repo' # repo => (last'.op = "reset" /\ last'.ret.tag = "Ok")
       /\ last'.op \in {"from_repo_head", "raw_signed_bytes", "ensure_fresh"} =>
             /\ repo' = repo
             /\ \A i \in 1..Len(last'.calls) : last'.calls[i].fn # "reset"]_vars

C10_Witness ==
    /\ last.op = "ensure_fresh"
    /\ last.ret.tag = "Err"
    /\ repo.index = "modified"
    /\ repo.workdir = "modified"

====
